---- MODULE Spec2Model ----
(***************************************************************************)
(* Template registry, reload cascade and config storage of the             *)
(* alloy-remote-config-server (package config).                            *)
(*                                                                         *)
(* Go strings are modelled as sequences of tokens.  The tokens "{", "}",   *)
(* ":", "*", "template" and ".conf.tmpl" stand for exactly those pieces    *)
(* of text; every other token is a piece of text containing none of them.  *)
(* Keys, patterns and file names are built by concatenation, as            *)
(* fmt.Sprintf and filepath.Join build them, and are taken apart by the    *)
(* prefix, suffix and substring tests of package strings.                  *)
(***************************************************************************)
EXTENDS Integers, Sequences, FiniteSets, TLC

VARIABLES
    UseRedis,           \* Storage.UseRedis, the same for every Storage
    Organization,       \* Storage.Organization, per Storage
    MemoryStore,        \* Storage.MemoryStore, per Storage: key -> content
    MemoryTemplateMap,  \* Storage.MemoryTemplateMap, per Storage: key -> name
    RedisStore,         \* the one remote keyspace: key -> [val, ttl, role]
    templates,          \* the registry: template name -> parsed body
    globalStorage,      \* the Storage the reload cascades into, or NoStorage
    configFolder,       \* the path last given to LoadTemplates
    dir,                \* the template directory: file name -> content
    calls,              \* the calls in flight that run step by step, and
                        \* where each of them is
    changed,            \* history: the directory changed since the last
                        \*          reload that returned nil
    last                \* history: the operation that produced this state

vars == <<UseRedis, Organization, MemoryStore, MemoryTemplateMap, RedisStore,
          templates, globalStorage, configFolder, dir, calls, changed, last>>

storeVars == <<MemoryStore, MemoryTemplateMap, RedisStore>>
registryVars == <<templates, configFolder, dir, changed>>
fixedVars == <<UseRedis, Organization, globalStorage>>

-----------------------------------------------------------------------------
(* Bounds *)

\* Storage.TTL in clock ticks (the code's default is 259200 seconds).
TTL == 2

\* Keys returned by one SCAN round trip (the code asks for 100).
ScanCount == 2

-----------------------------------------------------------------------------
(* package strings *)

HasPrefix(s, prefix) ==
    Len(s) >= Len(prefix) /\ SubSeq(s, 1, Len(prefix)) = prefix

TrimPrefix(s, prefix) ==
    IF HasPrefix(s, prefix) THEN SubSeq(s, Len(prefix) + 1, Len(s)) ELSE s

HasSuffix(s, suffix) ==
    Len(s) >= Len(suffix)
    /\ SubSeq(s, Len(s) - Len(suffix) + 1, Len(s)) = suffix

TrimSuffix(s, suffix) ==
    IF HasSuffix(s, suffix) THEN SubSeq(s, 1, Len(s) - Len(suffix)) ELSE s

Contains(s, substr) ==
    \E i \in 1..(Len(s) - Len(substr) + 1) :
        SubSeq(s, i, i + Len(substr) - 1) = substr

\* Glob-style matching as Redis SCAN MATCH and filepath.Match do it for the
\* patterns the code builds: "*" matches any run of tokens, every other
\* token matches itself.
RECURSIVE GlobMatch(_, _)
GlobMatch(pattern, s) ==
    IF pattern = <<>> THEN s = <<>>
    ELSE IF Head(pattern) = "*"
         THEN \E i \in 0..Len(s) :
                  GlobMatch(Tail(pattern), SubSeq(s, i + 1, Len(s)))
         ELSE /\ s # <<>>
              /\ Head(s) = Head(pattern)
              /\ GlobMatch(Tail(pattern), Tail(s))

\* A fixed enumeration of a finite set, used where the code walks a
\* collection whose order it does not control.
RECURSIVE SetToSeq(_)
SetToSeq(S) ==
    IF S = {} THEN <<>>
    ELSE LET x == CHOOSE y \in S : TRUE IN <<x>> \o SetToSeq(S \ {x})

RECURSIVE Reverse(_)
Reverse(q) == IF q = <<>> THEN <<>> ELSE Reverse(Tail(q)) \o <<Head(q)>>

Range(f) == {f[x] : x \in DOMAIN f}

\* F applied to e, with e worked out once whatever the number of times F
\* uses it.
Apply(F(_), e) == CHOOSE r \in {F(x) : x \in {e}} : TRUE

\* Map update and delete on a map held as a function on its key set.
Put(m, k, v) == [x \in (DOMAIN m) \cup {k} |-> IF x = k THEN v ELSE m[x]]
Drop(m, k) == [x \in (DOMAIN m) \ {k} |-> m[x]]
Empty == [x \in {} |-> <<>>]

-----------------------------------------------------------------------------
(* Key formatting, storage.go *)

\* The Storage objects of the process, and the nil *Storage.
Stores == {1, 2}
NoStorage == 0

\* fmt.Sprintf("{%s}:", s.Organization)
OrgPrefix(s) == <<"{">> \o Organization[s] \o <<"}", ":">>

\* fmt.Sprintf("{%s}:%s", s.Organization, id)
Key(s, id) == <<"{">> \o Organization[s] \o <<"}", ":">> \o id

\* fmt.Sprintf("{%s}:template:%s", s.Organization, id)
TemplateKey(s, id) ==
    <<"{">> \o Organization[s] \o <<"}", ":", "template", ":">> \o id

\* fmt.Sprintf("%s*", orgPrefix)
MatchPattern(s) == OrgPrefix(s) \o <<"*">>

\* fmt.Sprintf("%s:template:%s", orgPrefix,
\*             strings.TrimPrefix(configKey, orgPrefix))
ScanTemplateKey(s, configKey) ==
    OrgPrefix(s) \o <<":", "template", ":">>
                 \o TrimPrefix(configKey, OrgPrefix(s))

\* The default template name Set records.
Unknown == <<"unknown">>

\* The ":template:" text RemoveByTemplate looks for in a scanned key.
TemplateMarker == <<":", "template", ":">>

-----------------------------------------------------------------------------
(* The backends.  A store state is the record of the three maps. *)

Cur == [mem |-> MemoryStore, tmap |-> MemoryTemplateMap, redis |-> RedisStore]

\* A Redis entry: its value, its remaining time to live in ticks (0: no
\* expiry), and the statement that wrote it ("artifact": the content write
\* of SetWithTemplate, "provenance": its template-name write).  No
\* operation reads the role; it names what the key holds.
Entry(val, ttl, role) == [val |-> val, ttl |-> ttl, role |-> role]

\* redis.Client.Set(ctx, key, value, expiration)
RedisSet(redis, key, val, expiration, role) ==
    Put(redis, key, Entry(val, expiration, role))

\* redis.Client.Expire(ctx, key, expiration)
RedisExpire(redis, key, expiration) ==
    IF key \in DOMAIN redis
    THEN Put(redis, key, [redis[key] EXCEPT !.ttl = expiration])
    ELSE redis

\* redis.Client.Del(ctx, key)
RedisDel(redis, key) == Drop(redis, key)

\* One clock tick of the Redis server: every key with an expiry loses one
\* tick, and a key whose time is up is gone.
RedisTick(redis) ==
    LET alive == {k \in DOMAIN redis : redis[k].ttl # 1}
    IN  [k \in alive |->
            IF redis[k].ttl = 0 THEN redis[k]
            ELSE [redis[k] EXCEPT !.ttl = @ - 1]]

\* The pages of one full SCAN cursor walk over the keys matching a pattern:
\* at most ScanCount keys per round trip, at least one round trip.
RECURSIVE Pages(_)
Pages(q) ==
    IF Len(q) <= ScanCount THEN <<q>>
    ELSE <<SubSeq(q, 1, ScanCount)>> \o Pages(SubSeq(q, ScanCount + 1, Len(q)))

RedisScan(redis, match, backwards) ==
    Apply(LAMBDA q : Pages(IF backwards THEN Reverse(q) ELSE q),
          SetToSeq({k \in DOMAIN redis : GlobMatch(match, k)}))

-----------------------------------------------------------------------------
(* Storage, storage.go.  Every operation takes the store state st and the  *)
(* Storage s; an updating operation returns the new store state and        *)
(* whether it returned an error.                                           *)

Result(st, err) == [st |-> st, err |-> err]

\* The faults a Redis round trip of one call can meet: failAt is the
\* number of the failing round trip of SetWithTemplate or of the failing
\* SCAN of RemoveByTemplate (0: none); delFail is the set of keys whose DEL
\* fails; backwards is the order in which SCAN hands out the keys; late
\* tells that a clock tick falls between the EXPIRE and the second SET of
\* SetWithTemplate, so that the provenance entry outlives the artifact.
NoFault == [failAt |-> 0, delFail |-> {}, backwards |-> FALSE,
            late |-> FALSE]

Faulty(f) == f.failAt # 0 \/ f.delFail # {}

\* A SetWithTemplate that leaves the expiry of a key it finds alone.
SetWithTemplate_ExpireOnce(st, s, id, content, templateName, f) ==
    LET key == Key(s, id)
        templateKey == TemplateKey(s, id)
    IN  IF UseRedis
        THEN LET r1 == RedisSet(st.redis, key, content, 0, "artifact")
                 r2 == IF key \in DOMAIN st.redis THEN r1
                       ELSE RedisExpire(r1, key, TTL)
                 r2t == IF f.late THEN RedisTick(r2) ELSE r2
                 r3 == RedisSet(r2t, templateKey, templateName, TTL,
                                "provenance")
             IN  IF f.failAt = 1 THEN Result(st, TRUE)
                 ELSE IF f.failAt = 2
                      THEN Result([st EXCEPT !.redis = r1], TRUE)
                 ELSE IF f.failAt = 3
                      THEN Result([st EXCEPT !.redis = r2t], TRUE)
                 ELSE Result([st EXCEPT !.redis = r3], FALSE)
        ELSE Result([st EXCEPT
                        !.mem[s] = Put(@, key, content),
                        !.tmap[s] = Put(@, key, templateName)], FALSE)

\* A SetWithTemplate that writes the provenance entry first.
SetWithTemplate_ProvenanceFirst(st, s, id, content, templateName, f) ==
    LET key == Key(s, id)
        templateKey == TemplateKey(s, id)
    IN  IF UseRedis
        THEN LET r1 == RedisSet(st.redis, templateKey, templateName, TTL,
                                "provenance")
                 r2 == RedisSet(r1, key, content, 0, "artifact")
                 r2t == IF f.late THEN RedisTick(r2) ELSE r2
                 r3 == RedisExpire(r2t, key, TTL)
             IN  IF f.failAt = 1 THEN Result(st, TRUE)
                 ELSE IF f.failAt = 2
                      THEN Result([st EXCEPT !.redis = r1], TRUE)
                 ELSE IF f.failAt = 3
                      THEN Result([st EXCEPT !.redis = r2t], TRUE)
                 ELSE Result([st EXCEPT !.redis = r3], FALSE)
        ELSE Result([st EXCEPT
                        !.mem[s] = Put(@, key, content),
                        !.tmap[s] = Put(@, key, templateName)], FALSE)

\* Storage.SetWithTemplate
SetWithTemplate(st, s, id, content, templateName, f) ==
    LET key == Key(s, id)
        templateKey == TemplateKey(s, id)
    IN  IF UseRedis
        THEN LET r1 == RedisSet(st.redis, key, content, 0, "artifact")
                 r2 == RedisExpire(r1, key, TTL)
                 r2t == IF f.late THEN RedisTick(r2) ELSE r2
                 r3 == RedisSet(r2t, templateKey, templateName, TTL,
                                "provenance")
             IN  IF f.failAt = 1 THEN Result(st, TRUE)
                 ELSE IF f.failAt = 2
                      THEN Result([st EXCEPT !.redis = r1], TRUE)
                 ELSE IF f.failAt = 3
                      THEN Result([st EXCEPT !.redis = r2t], TRUE)
                 ELSE Result([st EXCEPT !.redis = r3], FALSE)
        ELSE Result([st EXCEPT
                        !.mem[s] = Put(@, key, content),
                        !.tmap[s] = Put(@, key, templateName)], FALSE)

\* Storage.Set
Set(st, s, id, content, f) == SetWithTemplate(st, s, id, content, Unknown, f)

NotFound == [err |-> TRUE, value |-> <<>>]
Found(v) == [err |-> FALSE, value |-> v]

\* Storage.GetTemplate
GetTemplate(st, s, id) ==
    IF UseRedis
    THEN LET templateKey == TemplateKey(s, id)
         IN  IF templateKey \in DOMAIN st.redis
             THEN Found(st.redis[templateKey].val) ELSE NotFound
    ELSE LET templateKey == Key(s, id)
         IN  IF templateKey \in DOMAIN st.tmap[s]
             THEN Found(st.tmap[s][templateKey]) ELSE NotFound

\* Storage.Get
\* A Get that reports an artifact gone before its provenance entry as
\* damage instead of as a missing key.
Get_Strict(st, s, id) ==
    LET key == Key(s, id)
    IN  IF UseRedis
        THEN IF key \in DOMAIN st.redis
             THEN Found(st.redis[key].val)
             ELSE IF TemplateKey(s, id) \in DOMAIN st.redis
                  THEN [err |-> TRUE, value |-> <<"inconsistent">>]
                  ELSE NotFound
        ELSE IF key \in DOMAIN st.mem[s]
             THEN Found(st.mem[s][key]) ELSE NotFound

Get(st, s, id) ==
    LET key == Key(s, id)
    IN  IF UseRedis
        THEN IF key \in DOMAIN st.redis
             THEN Found(st.redis[key].val) ELSE NotFound
        ELSE IF key \in DOMAIN st.mem[s]
             THEN Found(st.mem[s][key]) ELSE NotFound

\* Storage.GetAll, as the set of the ids it lists
RECURSIVE GetAllPages(_, _)
GetAllPages(pages, orgPrefix) ==
    IF pages = <<>> THEN {}
    ELSE {TrimPrefix(k, orgPrefix) : k \in Range(Head(pages))}
         \cup GetAllPages(Tail(pages), orgPrefix)

GetAll(st, s) ==
    LET orgPrefix == OrgPrefix(s)
    IN  IF UseRedis
        THEN GetAllPages(RedisScan(st.redis, MatchPattern(s), FALSE),
                         orgPrefix)
        ELSE {TrimPrefix(k, orgPrefix) : k \in DOMAIN st.mem[s]}

\* Storage.RemoveByTemplate on Redis: one scanned key
\* A RemoveKey that gives a key up at its first failing DEL.
RemoveKey_GiveUp(redis, s, templateName, configKey, delFail) ==
    IF Contains(configKey, TemplateMarker) THEN redis
    ELSE LET templateKey == ScanTemplateKey(s, configKey)
         IN  IF \/ templateKey \notin DOMAIN redis
                \/ redis[templateKey].val # templateName
             THEN redis
             ELSE IF configKey \in delFail THEN redis
             ELSE IF templateKey \in delFail
                  THEN RedisDel(redis, configKey)
                  ELSE RedisDel(RedisDel(redis, configKey), templateKey)

RemoveKey(redis, s, templateName, configKey, delFail) ==
    IF Contains(configKey, TemplateMarker) THEN redis
    ELSE LET templateKey == ScanTemplateKey(s, configKey)
         IN  IF \/ templateKey \notin DOMAIN redis
                \/ redis[templateKey].val # templateName
             THEN redis
             ELSE LET r1 == IF configKey \in delFail THEN redis
                            ELSE RedisDel(redis, configKey)
                  IN  IF templateKey \in delFail THEN r1
                      ELSE RedisDel(r1, templateKey)

\* the keys of one page, in order
RECURSIVE RemovePage(_, _, _, _, _)
RemovePage(redis, s, templateName, configKeys, delFail) ==
    IF configKeys = <<>> THEN redis
    ELSE Apply(LAMBDA r : RemovePage(r, s, templateName, Tail(configKeys),
                                     delFail),
               RemoveKey(redis, s, templateName, Head(configKeys), delFail))

\* the cursor loop: round trip n returns Head(pages), or fails
RECURSIVE RemovePages(_, _, _, _, _, _)
RemovePages(redis, s, templateName, pages, n, f) ==
    IF f.failAt = n THEN [redis |-> redis, err |-> TRUE]
    ELSE Apply(LAMBDA r :
                   IF Tail(pages) = <<>> THEN [redis |-> r, err |-> FALSE]
                   ELSE RemovePages(r, s, templateName, Tail(pages), n + 1,
                                    f),
               RemovePage(redis, s, templateName, Head(pages), f.delFail))

\* Storage.RemoveByTemplate
RemoveByTemplate(st, s, templateName, f) ==
    IF UseRedis
    THEN Apply(LAMBDA pages :
                   Apply(LAMBDA r : Result([st EXCEPT !.redis = r.redis],
                                           r.err),
                         RemovePages(st.redis, s, templateName, pages, 1, f)),
               RedisScan(st.redis, MatchPattern(s), f.backwards))
    ELSE LET keysToRemove ==
                 {k \in DOMAIN st.tmap[s] : st.tmap[s][k] = templateName}
         IN  Result([st EXCEPT
                        !.mem[s] = [k \in (DOMAIN @) \ keysToRemove |-> @[k]],
                        !.tmap[s] = [k \in (DOMAIN @) \ keysToRemove |-> @[k]]],
                    FALSE)

-----------------------------------------------------------------------------
(* The template registry and its reload (package config, LoadTemplates) *)

\* The recognised suffix and the pattern filepath.Join(path, "*.conf.tmpl")
\* leaves for the base names of the directory.
Suffix == <<".conf.tmpl">>
FilePattern == <<"*">> \o Suffix

\* File contents: two texts that parse, one that html/template rejects,
\* and a file ioutil.ReadFile cannot read.
Parsable == {"v1", "v2"}
Contents == Parsable \cup {"bad", "unreadable"}

\* The base names a directory can hold, in the order filepath.Glob sorts
\* them; the last two do not match the pattern.
FileOrder ==
    << <<"a">> \o Suffix, <<"b">> \o Suffix,
       <<"c">> \o Suffix \o <<".bak">>, <<"notes", ".txt">> >>

TemplateFiles == {FileOrder[1], FileOrder[2]}

\* The paths LoadTemplates is given: the template directory, and a path
\* that is a malformed pattern, for which filepath.Glob returns
\* ErrBadPattern.
Folder == <<"conf">>
Paths == {Folder, <<"conf", "[">>}
BadPattern(path) == Contains(path, <<"[">>)

\* filepath.Glob(filepath.Join(path, "*.conf.tmpl")): the sorted matches
Glob(d, path) ==
    IF path = Folder
    THEN SelectSeq(FileOrder,
                   LAMBDA f : f \in DOMAIN d /\ GlobMatch(FilePattern, f))
    ELSE <<>>

\* lines 27-32: the names of the files found
CurrentTemplates(files) == {TrimSuffix(f, Suffix) : f \in Range(files)}

\* Mutants of lines 35-40: the reload that drops nothing, and the one
\* with the test inverted.
TemplatesToRemove_None(tpl, currentTemplates) == {}

TemplatesToRemove_Inverted(tpl, currentTemplates) ==
    {templateName \in DOMAIN tpl : templateName \in currentTemplates}

\* lines 35-40: the registry names with no file
TemplatesToRemove(tpl, currentTemplates) ==
    {templateName \in DOMAIN tpl : templateName \notin currentTemplates}

\* lines 43-55: drop each name and cascade into the attached Storage; an
\* error of the cascade is logged and the loop goes on
RECURSIVE RemoveLoop(_, _, _, _)
RemoveLoop(tpl, st, names, f) ==
    IF names = <<>> THEN [tpl |-> tpl, st |-> st]
    ELSE LET templateName == Head(names)
             st1 == IF globalStorage # NoStorage
                    THEN RemoveByTemplate(st, globalStorage, templateName,
                                          f).st
                    ELSE st
         IN  Apply(LAMBDA st2 : RemoveLoop(Drop(tpl, templateName), st2,
                                           Tail(names), f),
                   st1)

\* lines 58-70: read and parse each file in turn, stop at the first error
RECURSIVE LoadLoop(_, _, _)
LoadLoop(tpl, d, files) ==
    IF files = <<>> THEN [tpl |-> tpl, err |-> FALSE]
    ELSE LET file == Head(files)
             content == d[file]
         IN  IF content = "unreadable" THEN [tpl |-> tpl, err |-> TRUE]
             ELSE IF content \notin Parsable THEN [tpl |-> tpl, err |-> TRUE]
             ELSE LoadLoop(Put(tpl, TrimSuffix(file, Suffix), content),
                           d, Tail(files))

\* LoadTemplates(path): names is templatesToRemove in the order the map
\* iteration yields it
LoadTemplates(tpl, st, d, path, names, f) ==
    IF BadPattern(path)
    THEN [tpl |-> tpl, st |-> st, err |-> TRUE]
    ELSE Apply(LAMBDA removed :
                   LET files == Glob(d, path)
                       loaded == LoadLoop(removed.tpl, d, files)
                   IN  [tpl |-> loaded.tpl, st |-> removed.st,
                        err |-> loaded.err],
               RemoveLoop(tpl, st, names, f))

-----------------------------------------------------------------------------
(* Inputs *)

cfg1 == <<"cfg1">>
cfg2 == <<"cfg2">>

\* Ids are caller-supplied text: two of them contain the text of the key
\* schema itself.
PlainIds == {cfg1, cfg2}
SchemaIds == {<<"template", ":", "cfg1">>, <<":", "template", ":", "cfg1">>}
Ids == {cfg1} \cup SchemaIds

\* Every id an observer is asked about: the inputs, and what a listing of
\* the keyspace can hand back.
ObservedIds ==
    PlainIds \cup SchemaIds
        \cup {<<"template", ":">> \o id : id \in PlainIds \cup SchemaIds}
        \cup {<<":", "template", ":">> \o id : id \in PlainIds}

\* Rendered contents (one of them is the text "a") and template names.
Rendered == {<<"hello">>, <<"a">>}
TemplateA == <<"a">>
TemplateB == <<"b">>
TemplateNames == {TemplateA, TemplateB}

\* All orders of a finite set.
Orders(S) == {q \in [1..Cardinality(S) -> S] : Range(q) = S}

\* The faults one RemoveByTemplate call can meet in the store state st:
\* none, one failing SCAN under either key order, or one failing DEL.
RemoveFaults(st, s) ==
    IF UseRedis
    THEN LET pages == RedisScan(st.redis, MatchPattern(s), FALSE)
         IN  {NoFault}
             \cup {[NoFault EXCEPT !.failAt = n, !.backwards = b] :
                      n \in 1..Len(pages), b \in BOOLEAN}
             \cup {[NoFault EXCEPT !.delFail = {k}] : k \in DOMAIN st.redis}
    ELSE {NoFault}

\* The faults one SetWithTemplate call can meet.
SetFaults ==
    IF UseRedis
    THEN {[NoFault EXCEPT !.failAt = n] : n \in 0..3}
    ELSE {NoFault}

\* The same, with the calls whose two SETs are a clock tick apart.
LateFaults ==
    IF UseRedis
    THEN SetFaults \cup {[NoFault EXCEPT !.late = TRUE]}
    ELSE {NoFault}

-----------------------------------------------------------------------------
(* History *)

Op(op, s, arg, err, fault, hit, again) ==
    [op |-> op, s |-> s, arg |-> arg, err |-> err, fault |-> fault,
     hit |-> hit, again |-> again]

\* The ids whose recorded template name is templateName and whose artifact
\* Get returns.
Produced(st, s, templateName) ==
    {id \in ObservedIds :
        /\ ~Get(st, s, id).err
        /\ GetTemplate(st, s, id) = Found(templateName)}

-----------------------------------------------------------------------------
(* Initial states *)

PlainOrgs == [s \in Stores |-> IF s = 1 THEN <<"acme">> ELSE <<"beta">>]

\* lines 13-17 of the registry file and InitStorage: empty maps, no
\* Storage attached, the folder "conf"; the directory holds two templates
\* and two files that are none.
\* No call is in flight.
Idle == [pc |-> "idle"]
NoCalls == [set |-> Idle, remove |-> Idle, load |-> Idle]

InitWith(orgs) ==
    /\ UseRedis \in BOOLEAN
    /\ Organization \in orgs
    /\ MemoryStore = [s \in Stores |-> Empty]
    /\ MemoryTemplateMap = [s \in Stores |-> Empty]
    /\ RedisStore = Empty
    /\ templates = Empty
    /\ globalStorage = NoStorage
    /\ configFolder = Folder
    /\ dir = [f \in Range(FileOrder) |-> "v1"]
    /\ calls = NoCalls
    /\ changed = TRUE
    /\ last = Op("init", NoStorage, <<>>, FALSE, FALSE, {}, FALSE)

Init == InitWith({PlainOrgs})

\* ORG_NAME is free text: the second tenant may be named "*".
StarOrgs == [s \in Stores |-> IF s = 1 THEN <<"acme">> ELSE <<"*">>]

InitTenants == InitWith({PlainOrgs, StarOrgs})

-----------------------------------------------------------------------------
(* Actions *)

Commit(st) ==
    /\ MemoryStore' = st.mem
    /\ MemoryTemplateMap' = st.tmap
    /\ RedisStore' = st.redis

SetWithTemplateOp(S, I, C, N, F) ==
    \E s \in S, id \in I, content \in C, templateName \in N, f \in F :
        LET r == SetWithTemplate(Cur, s, id, content, templateName, f)
        IN  /\ Commit(r.st)
            /\ last' = Op("SetWithTemplate", s, id, r.err, Faulty(f), {},
                          FALSE)
            /\ UNCHANGED <<calls, fixedVars, registryVars>>

SetOp(S, I, C, F) ==
    \E s \in S, id \in I, content \in C, f \in F :
        LET r == Set(Cur, s, id, content, f)
        IN  /\ Commit(r.st)
            /\ last' = Op("Set", s, id, r.err, Faulty(f), {}, FALSE)
            /\ UNCHANGED <<calls, fixedVars, registryVars>>

RemoveByTemplateOp(S, N) ==
    \E s \in S, templateName \in N :
        \E f \in RemoveFaults(Cur, s) :
            LET r == RemoveByTemplate(Cur, s, templateName, f)
            IN  /\ Commit(r.st)
                /\ last' = Op("RemoveByTemplate", s, templateName, r.err,
                              Faulty(f), Produced(Cur, s, templateName),
                              FALSE)
                /\ UNCHANGED <<calls, fixedVars, registryVars>>

\* SetWithTemplate, with the arguments of the call kept in the history:
\* hit holds the content and the template name, again tells that the call
\* repeats, with the same arguments, the call before it, which failed.
SetWithTemplateCall(S, I, C, N, F) ==
    \E s \in S, id \in I, content \in C, templateName \in N, f \in F :
        LET r == SetWithTemplate(Cur, s, id, content, templateName, f)
        IN  /\ Commit(r.st)
            /\ last' = Op("SetWithTemplate", s, id, r.err,
                          Faulty(f) \/ f.late, {<<content, templateName>>},
                          /\ last.op = "SetWithTemplate"
                          /\ last.err
                          /\ last.s = s
                          /\ last.arg = id
                          /\ last.hit = {<<content, templateName>>})
            /\ UNCHANGED <<calls, fixedVars, registryVars>>

\* The artifacts whose TTL elapses with the next clock tick.
Expiring(redis) ==
    {p \in Stores \X ObservedIds :
        /\ Key(p[1], p[2]) \in DOMAIN redis
        /\ redis[Key(p[1], p[2])].role = "artifact"
        /\ redis[Key(p[1], p[2])].ttl = 1}

\* Time passes on the Redis server.
Tick ==
    /\ UseRedis
    /\ \E k \in DOMAIN RedisStore : RedisStore[k].ttl # 0
    /\ RedisStore' = RedisTick(RedisStore)
    /\ last' = Op("Tick", NoStorage, <<>>, FALSE, FALSE,
                   Expiring(RedisStore), FALSE)
    /\ UNCHANGED <<calls, MemoryStore, MemoryTemplateMap, fixedVars, registryVars>>

\* A template file is created or rewritten.
WriteFile ==
    \E f \in TemplateFiles, content \in Contents :
        /\ IF f \in DOMAIN dir THEN dir[f] # content ELSE TRUE
        /\ dir' = Put(dir, f, content)
        /\ changed' = TRUE
        /\ last' = Op("WriteFile", NoStorage, f, FALSE, FALSE, {}, FALSE)
        /\ UNCHANGED <<calls, storeVars, fixedVars, templates, configFolder>>

\* A template file is deleted.
RemoveFile ==
    \E f \in TemplateFiles :
        /\ f \in DOMAIN dir
        /\ dir' = Drop(dir, f)
        /\ changed' = TRUE
        /\ last' = Op("RemoveFile", NoStorage, f, FALSE, FALSE, {}, FALSE)
        /\ UNCHANGED <<calls, storeVars, fixedVars, templates, configFolder>>

\* A Storage is attached to the reload.
SetGlobalStorage ==
    /\ globalStorage = NoStorage
    /\ globalStorage' = 1
    /\ last' = Op("SetGlobalStorage", 1, <<>>, FALSE, FALSE, {}, FALSE)
    /\ UNCHANGED <<calls, storeVars, registryVars, UseRedis, Organization>>

\* One call of LoadTemplates(path); mark is what the history keeps in the
\* field again.
LoadTemplatesStep(path, mark) ==
    \E toRemove \in
           {IF BadPattern(path) THEN {}
            ELSE TemplatesToRemove(templates,
                     CurrentTemplates(Glob(dir, path)))} :
        \E faults \in
               {IF globalStorage # NoStorage /\ toRemove # {}
                THEN RemoveFaults(Cur, globalStorage) ELSE {NoFault}} :
            \E names \in Orders(toRemove), f \in faults :
                \E r \in {LoadTemplates(templates, Cur, dir, path,
                                        names, f)} :
                    /\ configFolder' = path
                    /\ templates' = r.tpl
                    /\ Commit(r.st)
                    /\ changed' = (changed /\ r.err)
                    /\ last' = Op("LoadTemplates", globalStorage, path,
                                  r.err, Faulty(f), toRemove, mark)
                    /\ UNCHANGED <<calls, fixedVars, dir>>

\* One reload, as either driver runs it; the history tells whether the
\* directory is as the last reload that returned nil left it.
LoadTemplatesOp == \E path \in Paths : LoadTemplatesStep(path, ~changed)

\* One tick of the polling driver started on the template directory; the
\* history tells each tick from the one before it.
StartTemplateWatcherWithInterval == LoadTemplatesStep(Folder, ~last.again)

-----------------------------------------------------------------------------
(* The in-memory branches of SetWithTemplate and RemoveByTemplate, one
   statement at a time.  Storage has no lock: two goroutines that call
   into one Storage interleave at every statement. *)

\* line 67: a goroutine enters the in-memory branch of SetWithTemplate
SetWithTemplateEnter(S, I, C, N) ==
    \E s \in S, id \in I, content \in C, templateName \in N :
        /\ ~UseRedis
        /\ calls.set = Idle
        /\ calls' = [calls EXCEPT !.set =
                        [pc |-> "68", s |-> s, id |-> id,
                         content |-> content, templateName |-> templateName]]
        /\ UNCHANGED <<storeVars, fixedVars, registryVars, last>>

\* line 68: s.MemoryStore[key] = content
SetWithTemplateLine68 ==
    /\ calls.set.pc = "68"
    /\ LET c == calls.set
       IN  MemoryStore' = [MemoryStore EXCEPT
                              ![c.s] = Put(@, Key(c.s, c.id), c.content)]
    /\ calls' = [calls EXCEPT !.set.pc = "69"]
    /\ UNCHANGED <<MemoryTemplateMap, RedisStore, fixedVars, registryVars,
                   last>>

\* lines 69-71: s.MemoryTemplateMap[key] = templateName; return nil
SetWithTemplateLine69 ==
    /\ calls.set.pc = "69"
    /\ LET c == calls.set
       IN  /\ MemoryTemplateMap' =
                  [MemoryTemplateMap EXCEPT
                      ![c.s] = Put(@, Key(c.s, c.id), c.templateName)]
           /\ last' = Op("SetWithTemplate", c.s, c.id, FALSE, FALSE, {},
                         FALSE)
    /\ calls' = [calls EXCEPT !.set = Idle]
    /\ UNCHANGED <<MemoryStore, RedisStore, fixedVars, registryVars>>

\* lines 146-147: a goroutine enters the in-memory branch of
\* RemoveByTemplate; seen holds the keys the range loop has handed out
RemoveByTemplateEnter(S, N) ==
    \E s \in S, templateName \in N :
        /\ ~UseRedis
        /\ calls.remove = Idle
        /\ calls' = [calls EXCEPT !.remove =
                        [pc |-> "148", s |-> s, templateName |-> templateName,
                         seen |-> {}, keysToRemove |-> <<>>]]
        /\ UNCHANGED <<storeVars, fixedVars, registryVars, last>>

\* lines 148-153: one round of the range loop over s.MemoryTemplateMap
RemoveByTemplateLine148 ==
    /\ calls.remove.pc = "148"
    /\ LET c == calls.remove
       IN  \E configKey \in (DOMAIN MemoryTemplateMap[c.s]) \ c.seen :
               IF MemoryTemplateMap[c.s][configKey] = c.templateName
               THEN /\ MemoryStore' = [MemoryStore EXCEPT
                                          ![c.s] = Drop(@, configKey)]
                    /\ calls' = [calls EXCEPT
                          !.remove.seen = @ \cup {configKey},
                          !.remove.keysToRemove = Append(@, configKey)]
               ELSE /\ MemoryStore' = MemoryStore
                    /\ calls' = [calls EXCEPT
                          !.remove.seen = @ \cup {configKey}]
    /\ UNCHANGED <<MemoryTemplateMap, RedisStore, fixedVars, registryVars,
                   last>>

\* line 153: the range loop has handed out every key
RemoveByTemplateLine153 ==
    /\ calls.remove.pc = "148"
    /\ DOMAIN MemoryTemplateMap[calls.remove.s] \subseteq calls.remove.seen
    /\ calls' = [calls EXCEPT !.remove.pc = "155"]
    /\ UNCHANGED <<storeVars, fixedVars, registryVars, last>>

\* lines 155-157: one round of the loop over keysToRemove
RemoveByTemplateLine155 ==
    /\ calls.remove.pc = "155"
    /\ calls.remove.keysToRemove # <<>>
    /\ LET c == calls.remove
       IN  MemoryTemplateMap' =
               [MemoryTemplateMap EXCEPT
                   ![c.s] = Drop(@, Head(c.keysToRemove))]
    /\ calls' = [calls EXCEPT !.remove.keysToRemove = Tail(@)]
    /\ UNCHANGED <<MemoryStore, RedisStore, fixedVars, registryVars, last>>

\* line 159: return nil
RemoveByTemplateLine159 ==
    /\ calls.remove.pc = "155"
    /\ calls.remove.keysToRemove = <<>>
    /\ last' = Op("RemoveByTemplate", calls.remove.s,
                  calls.remove.templateName, FALSE, FALSE, {}, FALSE)
    /\ calls' = [calls EXCEPT !.remove = Idle]
    /\ UNCHANGED <<storeVars, fixedVars, registryVars>>

-----------------------------------------------------------------------------
(* LoadTemplates, one statement at a time.  The registry has no lock: a
   reader sees every state the call goes through. *)

\* lines 20-40: a call of LoadTemplates on the template directory lists
\* the files and collects the names to remove.  The call keeps, for the
\* record, the registry it found (old), the names it removes (removing)
\* and the artifacts recorded under each of them (had).
LoadTemplatesEnter ==
    /\ calls.load = Idle
    /\ LET files == Glob(dir, Folder)
           toRemove == TemplatesToRemove(templates, CurrentTemplates(files))
       IN  \E templatesToRemove \in Orders(toRemove) :
               calls' = [calls EXCEPT !.load =
                   [pc |-> IF toRemove = {} THEN "58" ELSE "44",
                    files |-> files,
                    templatesToRemove |-> templatesToRemove,
                    old |-> templates,
                    removing |-> toRemove,
                    had |-> [name \in toRemove |->
                                IF globalStorage = NoStorage THEN {}
                                ELSE UNION {Produced(Cur, s, name) :
                                        s \in Stores \cap {globalStorage}}]]]
    /\ configFolder' = Folder
    /\ UNCHANGED <<storeVars, fixedVars, templates, dir, changed, last>>

\* line 44: delete(templates, templateName)
LoadTemplatesLine44 ==
    /\ calls.load.pc = "44"
    /\ templates' = Drop(templates, Head(calls.load.templatesToRemove))
    /\ calls' = [calls EXCEPT !.load.pc = "47"]
    /\ UNCHANGED <<storeVars, fixedVars, configFolder, dir, changed, last>>

\* lines 47-54: the cascade into the attached Storage, and on to the
\* next name
LoadTemplatesLine47 ==
    /\ calls.load.pc = "47"
    /\ LET templateName == Head(calls.load.templatesToRemove)
       IN  IF globalStorage # NoStorage
           THEN \E r \in {RemoveByTemplate(Cur, globalStorage, templateName,
                                            NoFault)} : Commit(r.st)
           ELSE UNCHANGED storeVars
    /\ calls' = [calls EXCEPT
                    !.load.templatesToRemove = Tail(@),
                    !.load.pc = IF Tail(calls.load.templatesToRemove) = <<>>
                                THEN "58" ELSE "44"]
    /\ UNCHANGED <<fixedVars, registryVars, last>>

\* lines 58-70: one round of the loop over the files; a file that cannot
\* be read or parsed ends the call with the error
LoadTemplatesLine58 ==
    /\ calls.load.pc = "58"
    /\ calls.load.files # <<>>
    /\ LET file == Head(calls.load.files)
           readable == file \in DOMAIN dir /\ dir[file] \in Parsable
       IN  IF readable
           THEN /\ templates' = Put(templates, TrimSuffix(file, Suffix),
                                    dir[file])
                /\ calls' = [calls EXCEPT !.load.files = Tail(@)]
                /\ UNCHANGED <<changed, last>>
           ELSE /\ calls' = [calls EXCEPT !.load = Idle]
                /\ last' = Op("LoadTemplates", globalStorage, Folder, TRUE,
                              FALSE, calls.load.removing, ~changed)
                /\ UNCHANGED <<templates, changed>>
    /\ UNCHANGED <<storeVars, fixedVars, configFolder, dir>>

\* line 72: return nil
LoadTemplatesLine72 ==
    /\ calls.load.pc = "58"
    /\ calls.load.files = <<>>
    /\ calls' = [calls EXCEPT !.load = Idle]
    /\ changed' = FALSE
    /\ last' = Op("LoadTemplates", globalStorage, Folder, FALSE, FALSE,
                  calls.load.removing, ~changed)
    /\ UNCHANGED <<storeVars, fixedVars, templates, configFolder, dir>>

-----------------------------------------------------------------------------
(* Specifications *)

\* One Storage under every kind of id, with the faults and the clock of
\* the remote backend.
NextStore ==
    \/ SetWithTemplateOp({1}, Ids, Rendered, {TemplateA}, SetFaults)
    \/ SetOp({1}, {cfg1}, {<<"hello">>}, SetFaults)
    \/ RemoveByTemplateOp({1}, {TemplateA, Unknown})
    \/ Tick

SpecStore == Init /\ [][NextStore]_vars

\* The registry, the directory and the reload, with one Storage that the
\* application fills with plain ids.
NextReload ==
    \/ SetGlobalStorage
    \/ SetWithTemplateOp({1}, PlainIds, {<<"hello">>}, TemplateNames,
                         {NoFault})
    \/ SetOp({1}, PlainIds, {<<"hello">>}, {NoFault})
    \/ WriteFile
    \/ RemoveFile
    \/ LoadTemplatesOp

SpecReload == Init /\ [][NextReload]_vars

\* Two Storage objects of different organizations over one backend.
NextTenants ==
    \/ SetWithTemplateOp(Stores, PlainIds, {<<"hello">>}, {TemplateA},
                         {NoFault})
    \/ SetOp(Stores, PlainIds, {<<"hello">>}, {NoFault})
    \/ RemoveByTemplateOp(Stores, {TemplateA, Unknown})

SpecTenants == InitTenants /\ [][NextTenants]_vars

\* One Storage written by calls that can fail at each round trip and can
\* be slow, while the keys age.
NextExpiry ==
    \/ SetWithTemplateCall({1}, PlainIds, Rendered, {TemplateA, Unknown},
                           LateFaults)
    \/ Tick

SpecExpiry == Init /\ [][NextExpiry]_vars

\* One Storage holding several pages of keys, swept by calls that meet
\* failing SCANs and DELs.  The ids are such that the sweep finds entries
\* to delete.
SweepIds == PlainIds \cup {<<":", "template", ":">> \o id : id \in PlainIds}

NextSweep ==
    \/ SetWithTemplateOp({1}, SweepIds, {<<"a">>}, {TemplateA}, {NoFault})
    \/ RemoveByTemplateOp({1}, {TemplateA})

SpecSweep == Init /\ [][NextSweep]_vars

\* The reload over a Storage that also holds an id containing the text
\* of the key schema.
NextReloadSchema ==
    \/ SetGlobalStorage
    \/ SetWithTemplateOp({1}, {cfg1, <<":", "template", ":", "cfg1">>},
                         Rendered, {TemplateB}, {NoFault})
    \/ RemoveFile
    \/ LoadTemplatesOp

SpecReloadSchema == Init /\ [][NextReloadSchema]_vars

\* The registry under the polling driver: the ticker of
\* StartTemplateWatcherWithInterval fires for as long as the process runs,
\* every tick calls LoadTemplates, and the clock of the remote backend
\* goes on while it does.
PollingIds == {cfg1, <<"template", ":", "cfg1">>}

NextPolling ==
    \/ SetGlobalStorage
    \/ SetWithTemplateOp({1}, PollingIds, {<<"a">>}, {TemplateA}, SetFaults)
    \/ RemoveFile
    \/ Tick
    \/ StartTemplateWatcherWithInterval

\* Two goroutines on one in-memory Storage: one in SetWithTemplate, one
\* in RemoveByTemplate.
NextRace ==
    \/ SetWithTemplateEnter({1}, PlainIds, {<<"hello">>}, TemplateNames)
    \/ SetWithTemplateLine68
    \/ SetWithTemplateLine69
    \/ RemoveByTemplateEnter({1}, TemplateNames)
    \/ RemoveByTemplateLine148
    \/ RemoveByTemplateLine153
    \/ RemoveByTemplateLine155
    \/ RemoveByTemplateLine159

SpecRace == Init /\ [][NextRace]_vars

\* The reload seen by readers: the directory and the store change only
\* between two reloads, and every state of a reload is one a reader can
\* see.
NextReaders ==
    \/ (calls.load = Idle /\ SetGlobalStorage)
    \/ (calls.load = Idle
          /\ SetWithTemplateOp({1}, {cfg1}, {<<"hello">>}, TemplateNames,
                               {NoFault}))
    \/ (calls.load = Idle /\ WriteFile)
    \/ (calls.load = Idle /\ RemoveFile)
    \/ LoadTemplatesEnter
    \/ LoadTemplatesLine44
    \/ LoadTemplatesLine47
    \/ LoadTemplatesLine58
    \/ LoadTemplatesLine72

SpecReaders == Init /\ [][NextReaders]_vars

SpecPolling ==
    /\ Init
    /\ [][NextPolling]_vars
    /\ WF_vars(StartTemplateWatcherWithInterval)
    /\ WF_vars(Tick)

-----------------------------------------------------------------------------
(* Properties of the Storage *)

\* The ids that hold an artifact: a content written by SetWithTemplate and
\* still stored.
ArtifactIds(st, s) ==
    {id \in ObservedIds :
        IF UseRedis
        THEN /\ Key(s, id) \in DOMAIN st.redis
             /\ st.redis[Key(s, id)].role = "artifact"
        ELSE Key(s, id) \in DOMAIN st.mem[s]}

\* C1 (cascade completeness): once RemoveByTemplate(T) has returned nil,
\* with no backend fault on the way, Get and GetTemplate fail for every id
\* that held an artifact recorded under T when the call began.
C1_CascadeComplete ==
    (last.op = "RemoveByTemplate" /\ ~last.err /\ ~last.fault)
        => \A id \in last.hit :
               /\ Get(Cur, last.s, id).err
               /\ GetTemplate(Cur, last.s, id).err

\* C2 (cascade precision): RemoveByTemplate(T), with no backend fault on
\* the way, leaves Get and GetTemplate as they were for every id whose
\* artifact is recorded under a name other than T.
C2_CascadePrecise ==
    [][(last'.op = "RemoveByTemplate" /\ ~last'.fault)
        => \A id \in ObservedIds :
               (/\ ~Get(Cur, last'.s, id).err
                /\ ~GetTemplate(Cur, last'.s, id).err
                /\ GetTemplate(Cur, last'.s, id).value # last'.arg)
               => /\ Get(Cur', last'.s, id) = Get(Cur, last'.s, id)
                  /\ GetTemplate(Cur', last'.s, id)
                         = GetTemplate(Cur, last'.s, id)]_vars

\* C3 (provenance consistency): in every reachable state, failed sub-steps
\* and expiry included, every id Get succeeds for has GetTemplate succeed.
C3_ProvenanceConsistent ==
    \A s \in Stores : \A id \in PlainIds :
        ~Get(Cur, s, id).err => ~GetTemplate(Cur, s, id).err

\* C9 (GetAll): GetAll lists exactly the ids that hold an artifact, and so
\* no provenance key.
C9_GetAllListsArtifacts ==
    \A s \in Stores : GetAll(Cur, s) = ArtifactIds(Cur, s)

-----------------------------------------------------------------------------
(* Properties of the reload *)

\* The template names the directory holds: the base names ending in the
\* suffix, with the suffix stripped.
NamesInDir ==
    {TrimSuffix(file, Suffix) :
        file \in {g \in DOMAIN dir : HasSuffix(g, Suffix)}}

\* C4 (atomic reload): a reload that returns an error leaves the
\* registry's mapping as it was before the call.
C4_AtomicReload ==
    [][(last'.op = "LoadTemplates" /\ last'.err)
        => templates' = templates]_vars

\* C5 (failed reload keeps the cache): a reload that returns an error, with
\* no backend fault on the way, leaves Get and GetTemplate of every id as
\* they were before the call.
C5_FailedReloadKeepsCache ==
    [][(last'.op = "LoadTemplates" /\ last'.err /\ ~last'.fault)
        => \A s \in Stores : \A id \in ObservedIds :
               /\ Get(Cur', s, id) = Get(Cur, s, id)
               /\ GetTemplate(Cur', s, id) = GetTemplate(Cur, s, id)]_vars

\* C6 (reload cascade): after a reload that returns nil, with a Storage
\* attached and no backend fault on the way, every name that was in the
\* registry and has no file any more is treated as removed, is out of the
\* registry, and no artifact recorded under it is still returned by Get.
C6_ReloadCascade ==
    [][(/\ last'.op = "LoadTemplates"
        /\ ~last'.err
        /\ ~last'.fault
        /\ globalStorage # NoStorage)
        => \A name \in (DOMAIN templates) \ NamesInDir :
               /\ name \in last'.hit
               /\ name \notin DOMAIN templates'
               /\ Produced(Cur', globalStorage, name) = {}]_vars

\* C7 (registry/directory agreement): after every reload that returns nil
\* the names of the registry are exactly the names of the files matching
\* *.conf.tmpl in the directory, suffix stripped.
C7_RegistryMatchesDir ==
    (last.op = "LoadTemplates" /\ ~last.err)
        => DOMAIN templates = NamesInDir

\* C7 witness: a reload returned nil after dropping a name, some template
\* stays loaded, and the directory holds files that are no templates.
C7_Witness ==
    /\ last.op = "LoadTemplates"
    /\ ~last.err
    /\ last.hit # {}
    /\ DOMAIN templates # {}
    /\ \E file \in DOMAIN dir : ~HasSuffix(file, Suffix)

\* C8 (idempotent reload): a reload that returns nil while the directory
\* is as the previous successful reload left it removes no name and leaves
\* the registry's name set and the whole cache as they were.
C8_IdempotentReload ==
    [][(last'.op = "LoadTemplates" /\ ~last'.err /\ last'.again)
        => /\ last'.hit = {}
           /\ DOMAIN templates' = DOMAIN templates
           /\ Cur' = Cur]_vars

\* C8 witness: such a second reload has run over a loaded registry and a
\* filled cache, with the Storage attached.
C8_Witness ==
    /\ last.op = "LoadTemplates"
    /\ ~last.err
    /\ last.again
    /\ globalStorage # NoStorage
    /\ DOMAIN templates # {}
    /\ ArtifactIds(Cur, globalStorage) # {}

-----------------------------------------------------------------------------
(* Properties of the tenants *)

\* C10 (namespace isolation): an operation of one Storage changes the
\* result of no Get, GetTemplate or GetAll of a Storage of another
\* organization; in particular its RemoveByTemplate deletes nothing the
\* other one set.
C10_NamespaceIsolation ==
    [][\A o \in Stores :
          (last'.s \in Stores /\ last'.s # o)
          => /\ GetAll(Cur', o) = GetAll(Cur, o)
             /\ \A id \in ObservedIds :
                    /\ Get(Cur', o, id) = Get(Cur, o, id)
                    /\ GetTemplate(Cur', o, id) = GetTemplate(Cur, o, id)]_vars

-----------------------------------------------------------------------------
(* Writing to the remote backend *)

\* The key x is the same in the keyspaces old and new.
SameKey(old, new, x) ==
    /\ (x \in DOMAIN old) = (x \in DOMAIN new)
    /\ x \in DOMAIN old => new[x] = old[x]

\* The key x holds the entry e in the keyspace redis.
Holds(redis, x, e) == x \in DOMAIN redis /\ redis[x] = e

\* The calls of SetWithTemplate that the claims below are checked for.
WriteArgs == {1} \X PlainIds \X Rendered \X {TemplateA, Unknown}

\* C11 (retry-safe SetWithTemplate): from every reachable state, a call
\* that succeeds leaves the artifact with the content and the provenance
\* entry with the template name, both with the TTL on the remote backend;
\* repeating it changes nothing; and a call that failed at any round trip,
\* repeated with the same arguments and succeeding, ends in the state of
\* the one successful call.  A retry that the run has made ended so.
C11_RetrySafe ==
    /\ \A a \in WriteArgs :
           LET once == SetWithTemplate(Cur, a[1], a[2], a[3], a[4], NoFault)
           IN  /\ ~once.err
               /\ Get(once.st, a[1], a[2]) = Found(a[3])
               /\ GetTemplate(once.st, a[1], a[2]) = Found(a[4])
               /\ UseRedis =>
                      /\ Holds(once.st.redis, Key(a[1], a[2]),
                               Entry(a[3], TTL, "artifact"))
                      /\ Holds(once.st.redis, TemplateKey(a[1], a[2]),
                               Entry(a[4], TTL, "provenance"))
               /\ SetWithTemplate(once.st, a[1], a[2], a[3], a[4], NoFault)
                      = once
               /\ \A f \in SetFaults :
                      LET failed == SetWithTemplate(Cur, a[1], a[2], a[3],
                                                    a[4], f)
                      IN  SetWithTemplate(failed.st, a[1], a[2], a[3], a[4],
                                          NoFault) = once
    /\ (last.op = "SetWithTemplate" /\ last.again /\ ~last.err
            /\ ~last.fault /\ UseRedis)
           => \A c \in last.hit :
                  /\ Holds(RedisStore, Key(last.s, last.arg),
                           Entry(c[1], TTL, "artifact"))
                  /\ Holds(RedisStore, TemplateKey(last.s, last.arg),
                           Entry(c[2], TTL, "provenance"))

\* A call failed, was repeated with the same arguments and succeeded.
C11_Witness ==
    /\ UseRedis
    /\ last.op = "SetWithTemplate"
    /\ last.again
    /\ ~last.err
    /\ ~last.fault

\* C12 (TTL expiry on the remote backend): when the TTL of an artifact
\* has elapsed, Get fails for its id with the error of a missing key and
\* GetAll does not list the id, whether or not the provenance entry of
\* the id is still there.
C12_Expiry ==
    last.op = "Tick"
        => \A p \in last.hit :
               /\ Get(Cur, p[1], p[2]) = NotFound
               /\ p[2] \notin GetAll(Cur, p[1])

\* The TTL of an artifact has elapsed and its provenance entry has not.
C12_Witness ==
    /\ last.op = "Tick"
    /\ \E p \in last.hit : ~GetTemplate(Cur, p[1], p[2]).err

\* C18 (step order and failure reporting of SetWithTemplate on the remote
\* backend): the call writes the value, then sets its TTL, then writes the
\* provenance entry with the TTL; a failure of step k is returned, leaves
\* what the steps before k wrote and does no later step; the call returns
\* nil only when the three steps succeeded; no other key is touched.
C18_StepOrder ==
    UseRedis =>
        \A a \in WriteArgs, k \in 0..3 :
            LET r == SetWithTemplate(Cur, a[1], a[2], a[3], a[4],
                                     [NoFault EXCEPT !.failAt = k])
                key == Key(a[1], a[2])
                templateKey == TemplateKey(a[1], a[2])
                old == Cur.redis
                new == r.st.redis
            IN  /\ r.err = (k # 0)
                /\ \A x \in (DOMAIN old \cup DOMAIN new)
                               \ {key, templateKey} : SameKey(old, new, x)
                /\ k = 1 => new = old
                /\ k = 2 => /\ Holds(new, key, Entry(a[3], 0, "artifact"))
                            /\ SameKey(old, new, templateKey)
                /\ k = 3 => /\ Holds(new, key, Entry(a[3], TTL, "artifact"))
                            /\ SameKey(old, new, templateKey)
                /\ k = 0 => /\ Holds(new, key, Entry(a[3], TTL, "artifact"))
                            /\ Holds(new, templateKey,
                                     Entry(a[4], TTL, "provenance"))

\* The TTL of a call could not be set: the value stays, without expiry
\* and without the provenance entry of the call.
C18_Witness ==
    /\ UseRedis
    /\ last.op = "SetWithTemplate"
    /\ last.err
    /\ \E c \in last.hit :
           /\ Holds(RedisStore, Key(last.s, last.arg),
                    Entry(c[1], 0, "artifact"))
           /\ GetTemplate(Cur, last.s, last.arg) # Found(c[2])

-----------------------------------------------------------------------------
(* Sweeping the remote backend *)

\* The keys of the pages before page n, or of all pages for n = 0.
Scanned(pages, n) ==
    UNION {Range(pages[i]) :
              i \in {j \in 1..Len(pages) : n = 0 \/ j < n}}

\* The keys a sweep for templateName issues a DEL for, among those of
\* keys: each key that is taken for an artifact and whose looked-up
\* entry holds the name, and that looked-up entry.
ToDelete(redis, s, templateName, keys) ==
    UNION {{configKey, ScanTemplateKey(s, configKey)} :
              configKey \in
                 {k \in keys :
                     /\ ~Contains(k, TemplateMarker)
                     /\ ScanTemplateKey(s, k) \in DOMAIN redis
                     /\ redis[ScanTemplateKey(s, k)].val = templateName}}

\* C17 (best-effort cascade on the remote backend): a failing DEL does
\* not stop RemoveByTemplate: every other key of the page and of the later
\* pages is deleted as without the failure and the call returns nil.  The
\* call returns an error exactly when a SCAN fails, and has then handled
\* the pages before the failing one and nothing else.
C17_BestEffort ==
    UseRedis =>
        \A f \in RemoveFaults(Cur, 1) :
            LET pages == RedisScan(Cur.redis, MatchPattern(1), f.backwards)
                r == RemoveByTemplate(Cur, 1, TemplateA, f)
                gone == ToDelete(Cur.redis, 1, TemplateA,
                                 Scanned(pages, f.failAt)) \ f.delFail
            IN  /\ r.err = (f.failAt # 0)
                /\ r.st.redis
                      = [k \in (DOMAIN Cur.redis) \ gone |-> Cur.redis[k]]

\* A DEL failed, the call returned nil all the same, the entry looked up
\* for the key that stayed is gone and another artifact is gone too.
C17_Witness ==
    /\ UseRedis
    /\ last.op = "RemoveByTemplate"
    /\ last.fault
    /\ ~last.err
    /\ \E i \in last.hit \cap PlainIds : Get(Cur, last.s, i).err
    /\ \E j \in last.hit \cap PlainIds :
           /\ ~Get(Cur, last.s, j).err
           /\ ScanTemplateKey(last.s, Key(last.s, j)) \notin DOMAIN RedisStore

-----------------------------------------------------------------------------
(* The key schema *)

\* C19 (key-space separation on the remote backend): a call of
\* SetWithTemplate or Set for the id i, with no backend fault on the way,
\* leaves Get and GetTemplate as they were for every id other than i.
C19_KeySpaceSeparate ==
    [][(last'.op \in {"SetWithTemplate", "Set"} /\ ~last'.fault)
          => \A j \in ObservedIds \ {last'.arg} :
                 /\ Get(Cur', last'.s, j) = Get(Cur, last'.s, j)
                 /\ GetTemplate(Cur', last'.s, j)
                        = GetTemplate(Cur, last'.s, j)]_vars

-----------------------------------------------------------------------------
(* What a reload leaves alone *)

\* C16 (a reload keeps the artifacts that are still valid): a reload,
\* whether it returns nil or an error, leaves Get and GetTemplate as they
\* were for every artifact whose recorded template name is that of a
\* template file in the directory or is the default name "unknown".
C16_ReloadKeepsValid ==
    [][last'.op = "LoadTemplates"
          => \A s \in Stores, id \in ObservedIds :
                 (/\ ~Get(Cur, s, id).err
                  /\ \E name \in NamesInDir \cup {Unknown} :
                         GetTemplate(Cur, s, id) = Found(name))
                     => /\ Get(Cur', s, id) = Get(Cur, s, id)
                        /\ GetTemplate(Cur', s, id)
                               = GetTemplate(Cur, s, id)]_vars

-----------------------------------------------------------------------------
(* The polling driver *)

\* C20 (eventual cascade under the polling driver): from a state where
\* the file of a registry template is gone and a Storage is attached, the
\* run reaches a state where the file is back, or an artifact has just
\* been written, or the name is out of the registry and no artifact
\* recorded under it is returned by Get.
C20_EventualCascade ==
    \A name \in TemplateNames :
        (/\ name \in DOMAIN templates
         /\ name \notin NamesInDir
         /\ globalStorage # NoStorage)
            ~> (\/ name \in NamesInDir
                \/ last.op = "SetWithTemplate"
                \/ /\ name \notin DOMAIN templates
                   /\ globalStorage # NoStorage
                   /\ \A s \in Stores \cap {globalStorage} :
                          Produced(Cur, s, name) = {})

-----------------------------------------------------------------------------
(* Concurrency *)

\* C13 (in-memory backend under concurrency): when no call of
\* SetWithTemplate or RemoveByTemplate is in flight, the artifact map and
\* the provenance map of a Storage have the same key set.
C13_MapsAgree ==
    (calls.set = Idle /\ calls.remove = Idle)
        => \A s \in Stores :
               DOMAIN MemoryStore[s] = DOMAIN MemoryTemplateMap[s]

\* The registry a reload that returns nil ends with: the parsed content
\* of every template file of the directory.
NewTemplates ==
    [name \in NamesInDir |-> dir[name \o Suffix]]

\* C14 (registry generation atomicity): while a reload of a loaded
\* registry is in flight, with every template file of the directory one
\* that parses, the registry a reader sees is the mapping the reload
\* found or the mapping of the files the reload loads, never a mix of
\* the two.
C14_OldOrNew ==
    (/\ calls.load # Idle
     /\ calls.load.old # Empty
     /\ \A name \in NamesInDir : dir[name \o Suffix] \in Parsable)
        => \/ templates = calls.load.old
           \/ templates = NewTemplates

\* C15 (removal is atomic to readers): while a reload that removes T is
\* in flight and a Storage is attached, a reader does not see T out of
\* the registry with an artifact recorded under T still returned by Get,
\* nor T in the registry with the artifacts recorded under T gone.
C15_RemovalAtomic ==
    (calls.load # Idle /\ globalStorage # NoStorage) =>
        \A name \in calls.load.removing :
            \A s \in Stores \cap {globalStorage} :
                /\ ~(/\ name \notin DOMAIN templates
                     /\ Produced(Cur, s, name) # {})
                /\ ~(/\ name \in DOMAIN templates
                     /\ calls.load.had[name] # {}
                     /\ Produced(Cur, s, name) = {})

====
